---- MODULE Spec2Model ----
(***************************************************************************)
(* Model of senseofself.py: the loading of a Twitter archive               *)
(* (load_twitter_data), the per-text linguistic reduction                  *)
(* (analyze_self_expression), the per-year analysis (analyze_year) and the *)
(* page built by main.                                                     *)
(*                                                                         *)
(* The payload is a sequence of atoms: "v" a character of the variable     *)
(* name (any character that is neither JSON nor one of the others), "="    *)
(* the assignment operator, " " a whitespace character, ";" the statement  *)
(* terminator and "J" the text of one JSON document, whose value is the    *)
(* variable archive.                                                       *)
(***************************************************************************)
EXTENDS Integers, Sequences, FiniteSets, TLC

VARIABLES
    pc,        \* position in main / in analyze_year
    content,   \* the text of tweets.js
    archive,   \* the JSON value the atom "J" of content is the text of
    data,      \* load_twitter_data: the decoded array
    tweets,    \* load_twitter_data: the extracted dictionaries
    df,        \* the data frame: a sequence of rows
    years,     \* main: the years still to be processed, in loop order
    page,      \* what streamlit has been asked to display, in order
    ay,        \* analyze_year: tweet_counts, entities_count, lemmas_count
    ret,       \* the value analyze_year last returned
    exc        \* the exception raised, if any

vars == <<pc, content, archive, data, tweets, df, years, page, ay, ret, exc>>

----------------------------------------------------------------------------
(* Bounds of the model *)

MaxContent == 4     \* atoms in a payload
MaxTweets == 3      \* elements in the archive's array
MaxBatch == 2       \* rows of a year's frame given to analyze_year alone

(* Program constant *)
TopN == 10          \* most_common(10)

----------------------------------------------------------------------------
(* Small helpers *)

Min(a, b) == IF a <= b THEN a ELSE b

SeqsUpTo(S, n) == UNION {[1..k -> S] : k \in 0..n}

RECURSIVE Flatten(_)
Flatten(ss) == IF ss = <<>> THEN <<>> ELSE Head(ss) \o Flatten(Tail(ss))

RECURSIVE SelectRows(_, _)
SelectRows(s, keep) ==
    IF s = <<>> THEN <<>>
    ELSE IF keep[1] THEN <<Head(s)>> \o SelectRows(Tail(s), Tail(keep))
    ELSE SelectRows(Tail(s), Tail(keep))

NoExc == [type |-> "none", arg |-> ""]
Raise(t, a) == [type |-> t, arg |-> a]

----------------------------------------------------------------------------
(* load_twitter_data, lines 24-30: unwrap the assignment and decode *)

HasEq(c) == \E i \in 1..Len(c) : c[i] = "="

FirstEq(c) == CHOOSE i \in 1..Len(c) : c[i] = "=" /\ \A j \in 1..(i - 1) : c[j] # "="

\* content.split('=', 1)[1]
SplitAfterEq(c) == SubSeq(c, FirstEq(c) + 1, Len(c))

RECURSIVE LStrip(_)
LStrip(s) == IF s # <<>> /\ Head(s) = " " THEN LStrip(Tail(s)) ELSE s

RECURSIVE RStrip(_)
RStrip(s) == IF s # <<>> /\ s[Len(s)] = " " THEN RStrip(SubSeq(s, 1, Len(s) - 1)) ELSE s

\* str.strip()
Strip(s) == RStrip(LStrip(s))

\* if json_str.endswith(';'): json_str = json_str[:-1]
DropSemicolon(s) == IF s # <<>> /\ s[Len(s)] = ";" THEN SubSeq(s, 1, Len(s) - 1) ELSE s

JsonStr(c) == DropSemicolon(Strip(SplitAfterEq(c)))

\* json.loads accepts exactly one document, with whitespace around it
JsonValid(s) == Strip(s) = <<"J">>

\* Variant: split('=', 1)[-1], which takes the whole payload when there is no '='.
DecodeLenient(c) ==
    IF ~JsonValid(DropSemicolon(Strip(IF HasEq(c) THEN SplitAfterEq(c) ELSE c)))
    THEN Raise("JSONDecodeError", "") ELSE NoExc

\* Lines 24-30: the exception raised, or NoExc when data is decoded.
Decode(c) ==
    IF ~HasEq(c) THEN Raise("IndexError", "list index out of range")
    ELSE IF ~JsonValid(JsonStr(c)) THEN Raise("JSONDecodeError", "")
    ELSE NoExc

----------------------------------------------------------------------------
(* load_twitter_data, lines 33-40: extract the tweets *)

NoField == "<absent>"     \* the key is not in the dictionary

HasText(t) == t.full_text # NoField \/ t.text # NoField

\* Variant: the two fields in the other order of preference.
TextOfShortFirst(t) == IF t.text # NoField THEN t.text ELSE t.full_text

\* tweet_data['full_text'] if 'full_text' in tweet_data else tweet_data['text']
TextOf(t) == IF t.full_text # NoField THEN t.full_text ELSE t.text

ExtractTweet(el) ==
    [id |-> el.tweet.id, created_at |-> el.tweet.created_at,
     full_text |-> TextOf(el.tweet)]

\* The loop of lines 34-40 over the whole array.
ExtractExc(d) ==
    IF \E i \in 1..Len(d) : ~HasText(d[i].tweet) THEN Raise("KeyError", "text") ELSE NoExc

ExtractAll(d) == [i \in 1..Len(d) |-> ExtractTweet(d[i])]

----------------------------------------------------------------------------
(* load_twitter_data, lines 42-44: the frame and its timestamps *)

MonthAbbr == <<"Jan", "Feb", "Mar", "Apr", "May", "Jun",
               "Jul", "Aug", "Sep", "Oct", "Nov", "Dec">>

Parseable(raw) == \E m \in 1..12 : MonthAbbr[m] = raw.mon

\* pd.to_datetime of one value that parses
ToDatetime(raw) ==
    [year |-> raw.year, month |-> CHOOSE m \in 1..12 : MonthAbbr[m] = raw.mon]

Row(t) == [id |-> t.id, created_at |-> ToDatetime(t.created_at), full_text |-> t.full_text]

\* pd.DataFrame(tweets) has no column when tweets is empty, and pd.to_datetime
\* (errors='raise', the default) raises on the first value it cannot parse.
FrameExc(tw) ==
    IF tw = <<>> THEN Raise("KeyError", "created_at")
    ELSE IF \E i \in 1..Len(tw) : ~Parseable(tw[i].created_at)
    THEN Raise("ValueError", "created_at")
    ELSE NoExc

\* Variant: unparseable rows dropped (errors='coerce', dropna), an error of its own
\* when none is left.
BuildFrameCoerce(tw) ==
    LET keep == [i \in 1..Len(tw) |-> Parseable(tw[i].created_at)]
        rows == SelectRows(tw, keep)
    IN  [exc |-> IF rows = <<>> THEN Raise("EmptyArchiveError", "") ELSE NoExc,
         df |-> [i \in 1..Len(rows) |-> Row(rows[i])]]

\* Variant: drop_duplicates('id', keep='last').
BuildFrameDedup(tw) ==
    LET keep == [i \in 1..Len(tw) |-> \A j \in (i + 1)..Len(tw) : tw[j].id # tw[i].id]
        rows == SelectRows(tw, keep)
    IN  [exc |-> FrameExc(tw),
         df |-> IF FrameExc(tw) = NoExc THEN [i \in 1..Len(rows) |-> Row(rows[i])] ELSE <<>>]

\* Lines 42-44: the exception raised, or the frame returned.
BuildFrame(tw) ==
    [exc |-> FrameExc(tw),
     df |-> IF FrameExc(tw) = NoExc THEN [i \in 1..Len(tw) |-> Row(tw[i])] ELSE <<>>]

----------------------------------------------------------------------------
(* The annotation model nlp (spaCy), fixed on the texts of the model: per  *)
(* text, the labels of the entities of its document and its tokens.        *)

Tok(l, s, p, a) == [lemma |-> l, is_stop |-> s, is_punct |-> p, is_alpha |-> a]

Word(l) == Tok(l, FALSE, FALSE, TRUE)
Stop(l) == Tok(l, TRUE, FALSE, TRUE)
Punct(l) == Tok(l, FALSE, TRUE, FALSE)
Symbol(l) == Tok(l, FALSE, FALSE, FALSE)

Texts == {"A", "B", "C", "D"}

nlp(text) ==
    CASE text = "A" ->    \* Ann loved running 2 races, Ann's Acme!
           [ents |-> <<"PERSON", "CARDINAL", "PERSON", "ORG">>,
            toks |-> <<Word("Ann"), Word("love"), Word("run"), Symbol("2"), Word("race"),
                       Punct(","), Word("Ann"), Tok("'s", TRUE, FALSE, FALSE),
                       Word("Acme"), Punct("!")>>]
      [] text = "B" ->    \* the, and!
           [ents |-> <<>>,
            toks |-> <<Stop("the"), Punct(","), Stop("and"), Punct("!")>>]
      [] text = "C" ->    \* one document with six kinds of entity
           [ents |-> <<"GPE", "DATE", "ORG", "MONEY", "NORP", "GPE", "TIME">>,
            toks |-> <<Word("run"), Stop("in"), Word("Paris"), Word("cost"),
                       Symbol("$"), Symbol("5"), Word("run")>>]
      [] text = "D" ->    \* one document with seven more
           [ents |-> <<"EVENT", "LOC", "PRODUCT", "FAC", "LAW", "DATE", "LANGUAGE",
                       "PERCENT">>,
            toks |-> <<Stop("I"), Word("love"), Word("race"), Punct("."),
                       Symbol("100"), Symbol("%")>>]

----------------------------------------------------------------------------
(* collections.Counter: the keys in the order first seen, each with its count *)

Incr(c, k) ==
    IF \E i \in 1..Len(c) : c[i][1] = k
    THEN [i \in 1..Len(c) |-> IF c[i][1] = k THEN <<k, c[i][2] + 1>> ELSE c[i]]
    ELSE Append(c, <<k, 1>>)

RECURSIVE Counter(_)
Counter(xs) ==
    IF xs = <<>> THEN <<>> ELSE Incr(Counter(SubSeq(xs, 1, Len(xs) - 1)), xs[Len(xs)])

\* Variant: an insertion that puts a pair before the pairs of equal count.
InsertDescBefore(s, p) ==
    LET k == Cardinality({i \in 1..Len(s) : s[i][2] > p[2]})
    IN  SubSeq(s, 1, k) \o <<p>> \o SubSeq(s, k + 1, Len(s))

\* sorted(items, key=itemgetter(1), reverse=True): stable, equal counts keep their order
InsertDesc(s, p) ==
    LET k == Cardinality({i \in 1..Len(s) : s[i][2] >= p[2]})
    IN  SubSeq(s, 1, k) \o <<p>> \o SubSeq(s, k + 1, Len(s))

RECURSIVE SortedDesc(_)
SortedDesc(c) ==
    IF c = <<>> THEN <<>>
    ELSE InsertDesc(SortedDesc(SubSeq(c, 1, Len(c) - 1)), c[Len(c)])

\* Counter.most_common(n)
MostCommon(c, n) == SubSeq(SortedDesc(c), 1, Min(n, Len(c)))

----------------------------------------------------------------------------
(* analyze_self_expression, lines 47-54 *)

\* Variant: the filter without token.is_alpha.
KeptNoAlpha(t) == ~t.is_stop /\ ~t.is_punct

\* not token.is_stop and not token.is_punct and token.is_alpha
Kept(t) == ~t.is_stop /\ ~t.is_punct /\ t.is_alpha

RECURSIVE LemmasOf(_)
LemmasOf(toks) ==
    IF toks = <<>> THEN <<>>
    ELSE (IF Kept(Head(toks)) THEN <<Head(toks).lemma>> ELSE <<>>) \o LemmasOf(Tail(toks))

AnalyzeSelfExpression(texts) ==
    LET docs == [i \in 1..Len(texts) |-> nlp(texts[i])]
        entities == Flatten([i \in 1..Len(docs) |-> docs[i].ents])
        lemmas == Flatten([i \in 1..Len(docs) |-> LemmasOf(docs[i].toks)])
    IN  [entities |-> Counter(entities), lemmas |-> Counter(lemmas)]

----------------------------------------------------------------------------
(* analyze_year, lines 65-71 *)

MonthIndex(ts) == ts.year * 12 + (ts.month - 1)

MinIndex(rows) ==
    CHOOSE k \in {MonthIndex(rows[i].created_at) : i \in 1..Len(rows)} :
        \A i \in 1..Len(rows) : k <= MonthIndex(rows[i].created_at)

MaxIndex(rows) ==
    CHOOSE k \in {MonthIndex(rows[i].created_at) : i \in 1..Len(rows)} :
        \A i \in 1..Len(rows) : k >= MonthIndex(rows[i].created_at)

CountIn(rows, k) == Cardinality({i \in 1..Len(rows) : MonthIndex(rows[i].created_at) = k})

\* Variant: groupby(month).size(), which has no bin for a month without rows.
ResampleNoFill(rows) ==
    IF rows = <<>> THEN <<>>
    ELSE LET ks == {MonthIndex(rows[i].created_at) : i \in 1..Len(rows)}
             RECURSIVE Asc(_)
             Asc(S) == IF S = {} THEN <<>>
                       ELSE LET k == CHOOSE x \in S : \A y \in S : x <= y
                            IN  <<[year |-> k \div 12, month |-> (k % 12) + 1,
                                   count |-> CountIn(rows, k)]>> \o Asc(S \ {k})
         IN  Asc(ks)

\* df_year.resample('M', on='created_at').size(): one bin per month from the month of
\* the earliest row to the month of the latest row, empty bins included.
Resample(rows) ==
    IF rows = <<>> THEN <<>>
    ELSE LET lo == MinIndex(rows)
         IN  [j \in 1..(MaxIndex(rows) - lo + 1) |->
                [year |-> (lo + j - 1) \div 12, month |-> ((lo + j - 1) % 12) + 1,
                 count |-> CountIn(rows, lo + j - 1)]]

\* WordCloud.generate_from_frequencies raises ValueError on an empty table
\* ("We need at least 1 word to plot a word cloud, got 0.")
GenerateWordcloud(lemmas_count) ==
    IF lemmas_count = <<>>
    THEN [exc |-> Raise("ValueError", "wordcloud"), fig |-> <<>>]
    ELSE [exc |-> NoExc, fig |-> lemmas_count]

NoLocals == [tweet_counts |-> <<>>, entities_count |-> <<>>, lemmas_count |-> <<>>]

NoRet == [tweet_counts |-> <<>>, top_entities |-> <<>>, wordcloud_fig |-> <<>>]

TextColumn(rows) == [i \in 1..Len(rows) |-> rows[i].full_text]

\* Lines 66-67
AnalyzeYearLocals(df_year) ==
    LET counts == AnalyzeSelfExpression(TextColumn(df_year))
    IN  [tweet_counts |-> Resample(df_year),
         entities_count |-> counts.entities, lemmas_count |-> counts.lemmas]

\* Lines 68-71
AnalyzeYearReturn(loc) ==
    LET top_entities == MostCommon(loc.entities_count, TopN)
        cloud == GenerateWordcloud(loc.lemmas_count)
    IN  [exc |-> cloud.exc,
         ret |-> IF cloud.exc = NoExc
                 THEN [tweet_counts |-> loc.tweet_counts, top_entities |-> top_entities,
                       wordcloud_fig |-> cloud.fig]
                 ELSE NoRet]

----------------------------------------------------------------------------
(* main, lines 74-109 *)

\* df['created_at'].dt.year.unique(): the years in the order first seen
RECURSIVE Unique(_)
Unique(xs) ==
    IF xs = <<>> THEN <<>>
    ELSE LET u == Unique(SubSeq(xs, 1, Len(xs) - 1))
         IN  IF \E i \in 1..Len(u) : u[i] = xs[Len(xs)] THEN u ELSE Append(u, xs[Len(xs)])

\* years.sort()
RECURSIVE SortAsc(_)
SortAsc(xs) ==
    IF xs = <<>> THEN <<>>
    ELSE LET m == CHOOSE i \in 1..Len(xs) : \A j \in 1..Len(xs) : xs[i] <= xs[j]
         IN  <<xs[m]>> \o SortAsc(SubSeq(xs, 1, m - 1) \o SubSeq(xs, m + 1, Len(xs)))

YearColumn(rows) == [i \in 1..Len(rows) |-> rows[i].created_at.year]

\* Lines 84-85
YearsOf(rows) == SortAsc(Unique(YearColumn(rows)))

\* df[df['created_at'].dt.year == year]
YearRows(rows, y) == SelectRows(rows, [i \in 1..Len(rows) |-> rows[i].created_at.year = y])

\* Variant: except ValueError (JSONDecodeError is a ValueError).
CaughtValueError(e) == e.type \in {"ValueError", "JSONDecodeError"}

\* except Exception: every exception of the model is caught
Caught(e) == TRUE

\* The try block is left with exception e (lines 108-109).
Fail(e, shown) ==
    /\ exc' = e
    /\ page' = IF Caught(e) THEN Append(shown, [kind |-> "error", exc |-> e]) ELSE shown
    /\ pc' = IF Caught(e) THEN "done" ELSE "crashed"

----------------------------------------------------------------------------
(* The inputs of the model *)

\* A payload is either any sequence of atoms, its document being the empty array, or
\* the usual wrapping of any array of elements.
Atoms == {"v", "=", " ", ";", "J"}

Contents == SeqsUpTo(Atoms, MaxContent)

WrappedContent == <<"v", "=", " ", "J", ";">>

\* created_at strings, by the month and year they spell; "???" spells no date.
\* No record falls in 2020.
RawStamps == {[mon |-> "Apr", year |-> 2019], [mon |-> "Apr", year |-> 2021],
              [mon |-> "Dec", year |-> 2021], [mon |-> "???", year |-> 0]}

TextFields == {[full_text |-> "A", text |-> "B"], [full_text |-> NoField, text |-> "B"],
               [full_text |-> NoField, text |-> NoField]}

Elements ==
    {[tweet |-> [id |-> i, created_at |-> c, full_text |-> t.full_text, text |-> t.text]] :
        i \in {1, 2}, c \in RawStamps, t \in TextFields}

Archives == SeqsUpTo(Elements, MaxTweets)

\* The frames of one year given to analyze_year
YearFrameRows ==
    {[id |-> 1, created_at |-> [year |-> 2019, month |-> m], full_text |-> t] :
        m \in {1, 4, 12}, t \in Texts}

YearFrames == SeqsUpTo(YearFrameRows, MaxBatch) \ {<<>>}

----------------------------------------------------------------------------
(* main on one payload *)

Init ==
    /\ pc = "main"
    /\ \/ content \in Contents /\ archive = <<>>
       \/ content = WrappedContent /\ archive \in Archives
    /\ data = <<>>
    /\ tweets = <<>>
    /\ df = <<>>
    /\ years = <<>>
    /\ page = <<>>
    /\ ay = NoLocals
    /\ ret = NoRet
    /\ exc = NoExc

\* Line 75
Title ==
    /\ pc = "main"
    /\ page' = Append(page, [kind |-> "title"])
    /\ pc' = "load"
    /\ UNCHANGED <<content, archive, data, tweets, df, years, ay, ret, exc>>

\* Lines 20-30
ReadDecode ==
    /\ pc = "load"
    /\ IF Decode(content) # NoExc
       THEN Fail(Decode(content), page) /\ data' = data
       ELSE data' = archive /\ pc' = "extract" /\ UNCHANGED <<page, exc>>
    /\ UNCHANGED <<content, archive, tweets, df, years, ay, ret>>

\* Lines 33-40
Extract ==
    /\ pc = "extract"
    /\ IF ExtractExc(data) # NoExc
       THEN Fail(ExtractExc(data), page) /\ tweets' = tweets
       ELSE tweets' = ExtractAll(data) /\ pc' = "frame" /\ UNCHANGED <<page, exc>>
    /\ UNCHANGED <<content, archive, data, df, years, ay, ret>>

\* Lines 42-44, and the return to main
LoadReturn ==
    /\ pc = "frame"
    /\ IF BuildFrame(tweets).exc # NoExc
       THEN Fail(BuildFrame(tweets).exc, page) /\ df' = df
       ELSE df' = BuildFrame(tweets).df /\ pc' = "summary" /\ UNCHANGED <<page, exc>>
    /\ UNCHANGED <<content, archive, data, tweets, years, ay, ret>>

\* Lines 80-85
Summary ==
    /\ pc = "summary"
    /\ page' = page \o <<[kind |-> "header", text |-> "journey"],
                         [kind |-> "total", count |-> Len(df)],
                         [kind |-> "range", lo |-> MinIndex(df), hi |-> MaxIndex(df)]>>
    /\ years' = YearsOf(df)
    /\ pc' = "years"
    /\ UNCHANGED <<content, archive, data, tweets, df, ay, ret, exc>>

\* Lines 87-106: one iteration of the loop
YearStep ==
    /\ pc = "years"
    /\ years # <<>>
    /\ LET year == Head(years)
           shown == Append(page, [kind |-> "year_header", year |-> year])
           loc == AnalyzeYearLocals(YearRows(df, year))
           r == AnalyzeYearReturn(loc)
       IN  /\ ay' = loc
           /\ IF r.exc # NoExc
              THEN Fail(r.exc, shown) /\ UNCHANGED <<years, ret>>
              ELSE /\ ret' = r.ret
                   /\ page' = Append(shown, [kind |-> "report", year |-> year,
                                             line_chart |-> r.ret.tweet_counts,
                                             bar_chart |-> r.ret.top_entities,
                                             pyplot |-> r.ret.wordcloud_fig])
                   /\ years' = Tail(years)
                   /\ UNCHANGED <<pc, exc>>
    /\ UNCHANGED <<content, archive, data, tweets, df>>

\* The loop ends and main returns
Finish ==
    /\ pc = "years"
    /\ years = <<>>
    /\ pc' = "done"
    /\ UNCHANGED <<content, archive, data, tweets, df, years, page, ay, ret, exc>>

Next == Title \/ ReadDecode \/ Extract \/ LoadReturn \/ Summary \/ YearStep \/ Finish

Spec == Init /\ [][Next]_vars

----------------------------------------------------------------------------
(* analyze_year on one year's frame *)

InitYear ==
    /\ pc = "analyze_year"
    /\ df \in YearFrames
    /\ content = <<>>
    /\ archive = <<>>
    /\ data = <<>>
    /\ tweets = <<>>
    /\ years = <<>>
    /\ page = <<>>
    /\ ay = NoLocals
    /\ ret = NoRet
    /\ exc = NoExc

\* Lines 66-67
CountYear ==
    /\ pc = "analyze_year"
    /\ ay' = AnalyzeYearLocals(df)
    /\ pc' = "rank"
    /\ UNCHANGED <<content, archive, data, tweets, df, years, page, ret, exc>>

\* Lines 68-71
RankYear ==
    /\ pc = "rank"
    /\ ret' = AnalyzeYearReturn(ay).ret
    /\ exc' = AnalyzeYearReturn(ay).exc
    /\ pc' = "returned"
    /\ UNCHANGED <<content, archive, data, tweets, df, years, page, ay>>

NextYear == CountYear \/ RankYear

SpecYear == InitYear /\ [][NextYear]_vars

----------------------------------------------------------------------------
(* Vocabulary of the properties *)

InLoad == pc \in {"main", "load", "extract", "frame"}

Loaded == ~InLoad /\ df # <<>>

LoadFailed == ~InLoad /\ df = <<>>

Items(kind) == {i \in 1..Len(page) : page[i].kind = kind}

BadStamps(tw) == {i \in 1..Len(tw) : \A m \in 1..12 : MonthAbbr[m] # tw[i].created_at.mon}

\* The entity labels of the frame's texts, in reading order
EntityList == Flatten([i \in 1..Len(df) |-> nlp(df[i].full_text).ents])

Labels == {EntityList[i] : i \in 1..Len(EntityList)}

Occurrences(l) == Cardinality({i \in 1..Len(EntityList) : EntityList[i] = l})

FirstSeen(l) == CHOOSE i \in 1..Len(EntityList) :
                    EntityList[i] = l /\ \A j \in 1..(i - 1) : EntityList[j] # l

\* The positions <<row, token>> of the tokens of the frame's texts
TokenAt(q) == nlp(df[q[1]].full_text).toks[q[2]]

TokenPositions ==
    UNION {{<<i, j>> : j \in 1..Len(nlp(df[i].full_text).toks)} : i \in 1..Len(df)}

ContentPositions ==
    {q \in TokenPositions :
        /\ TokenAt(q).is_stop = FALSE
        /\ TokenAt(q).is_punct = FALSE
        /\ TokenAt(q).is_alpha = TRUE}

MonthsWithRows == {df[i].created_at.month : i \in 1..Len(df)}

RowsInMonth(m) == Cardinality({i \in 1..Len(df) : df[i].created_at.month = m})

----------------------------------------------------------------------------
(* C1: monthly counts *)

\* C1 as stated: for a year with at least one record, the series of analyze_year has
\* exactly 12 entries, January to December, each with the number of that month's
\* records, 0 for a month without records.
C1_TwelveEntries ==
    pc \in {"rank", "returned"} =>
        /\ Len(ay.tweet_counts) = 12
        /\ \A m \in 1..12 :
              ay.tweet_counts[m].month = m /\ ay.tweet_counts[m].count = RowsInMonth(m)

\* C1 amended: the series of analyze_year has one entry per month from the month of the
\* year's earliest record to the month of its latest record, in order, each with the
\* number of that month's records (0 for a month of the span without records); months
\* before the first and after the last record do not appear.
C1_SpanZeroFilled ==
    pc \in {"rank", "returned"} =>
        LET first == CHOOSE m \in MonthsWithRows : \A n \in MonthsWithRows : m <= n
            last == CHOOSE m \in MonthsWithRows : \A n \in MonthsWithRows : m >= n
            s == ay.tweet_counts
        IN  /\ Len(s) = last - first + 1
            /\ \A j \in 1..Len(s) :
                  /\ s[j].year = df[1].created_at.year
                  /\ s[j].month = first + j - 1
                  /\ s[j].count = RowsInMonth(first + j - 1)

\* A year with records in January and April only: four entries, two of them 0.
C1_Witness ==
    /\ pc = "returned"
    /\ MonthsWithRows = {1, 4}
    /\ Len(ay.tweet_counts) = 4
    /\ ay.tweet_counts[2].count = 0
    /\ ay.tweet_counts[3].count = 0

----------------------------------------------------------------------------
(* C2: a record with an unparseable timestamp *)

\* C2 as stated: when some but not all records have an unparseable created_at, loading
\* does not raise and the collection is made of the remaining records.
C2_BadRecordsDropped ==
    (~InLoad /\ BadStamps(tweets) # {} /\ BadStamps(tweets) # 1..Len(tweets)) =>
        /\ exc.arg # "created_at"
        /\ Len(df) = Len(tweets) - Cardinality(BadStamps(tweets))

\* C2 amended: when some record has an unparseable created_at, loading raises the
\* ValueError of pd.to_datetime: no record is dropped, no collection is returned, no
\* year is processed, and main displays the error.
C2_BadRecordAborts ==
    (~InLoad /\ BadStamps(tweets) # {}) =>
        /\ exc = Raise("ValueError", "created_at")
        /\ df = <<>>
        /\ pc = "done"
        /\ Items("report") = {}
        /\ page[Len(page)] = [kind |-> "error", exc |-> exc]

\* Three records, one of them with an unparseable timestamp: the load has failed.
C2_Witness ==
    /\ pc = "done"
    /\ Len(tweets) = 3
    /\ Cardinality(BadStamps(tweets)) = 1
    /\ exc.type = "ValueError"
    /\ df = <<>>

----------------------------------------------------------------------------
(* C3: a payload that is not an assignment of a JSON document *)

\* C3 as stated: a payload without '=', or whose text after the first '=' (stripped, one
\* trailing ';' removed) is not valid JSON, fails with MalformedArchiveError and returns
\* no collection.
C3_MalformedArchiveError ==
    (~InLoad /\ (~HasEq(content) \/ ~JsonValid(JsonStr(content)))) =>
        exc.type = "MalformedArchiveError" /\ df = <<>>

\* C3 amended: such a payload makes load_twitter_data fail, with the IndexError of
\* split('=', 1)[1] when there is no '=' and with json.JSONDecodeError when the
\* remainder is not valid JSON; no collection is returned.
C3_MalformedFails ==
    ~InLoad =>
        /\ (\A i \in 1..Len(content) : content[i] # "=") =>
              /\ exc.type = "IndexError"
              /\ data = <<>> /\ tweets = <<>> /\ df = <<>> /\ pc = "done"
        /\ ((\E i \in 1..Len(content) : content[i] = "=") /\ ~JsonValid(JsonStr(content))) =>
              /\ exc.type = "JSONDecodeError"
              /\ data = <<>> /\ tweets = <<>> /\ df = <<>> /\ pc = "done"

\* A payload with the document followed by two terminators has failed to decode.
C3_Witness ==
    /\ pc = "done"
    /\ exc.type = "JSONDecodeError"
    /\ \E i \in 1..Len(content) : content[i] = "J"
    /\ content[Len(content)] = ";"
    /\ df = <<>>

----------------------------------------------------------------------------
(* C4: no usable record *)

NoUsableRecord ==
    /\ ~InLoad
    /\ Decode(content) = NoExc
    /\ ExtractExc(data) = NoExc
    /\ BadStamps(tweets) = 1..Len(tweets)

\* C4 as stated: when the payload parses and no valid record remains (every created_at
\* unparseable, or an empty array), loading fails with EmptyArchiveError.
C4_EmptyArchiveError == NoUsableRecord => exc.type = "EmptyArchiveError"

\* C4 amended: in that case loading fails with the ValueError of pd.to_datetime when
\* every created_at is unparseable, and with KeyError('created_at') when the array is
\* empty; never with an EmptyArchiveError and never with an empty collection returned.
C4_NoUsableRecordFails ==
    NoUsableRecord =>
        /\ exc = IF tweets = <<>> THEN Raise("KeyError", "created_at")
                 ELSE Raise("ValueError", "created_at")
        /\ pc = "done"
        /\ df = <<>>
        /\ Items("total") = {}
        /\ Items("report") = {}

\* Two records, both with an unparseable timestamp.
C4_Witness ==
    /\ pc = "done"
    /\ Len(tweets) = 2
    /\ BadStamps(tweets) = {1, 2}
    /\ exc.type = "ValueError"

----------------------------------------------------------------------------
(* C5: the top entities *)

\* C5: top_entities has min(10, number of distinct labels) entries, each a label with
\* its number of mentions, in non-increasing order of count, labels of equal count in
\* the order in which they were first met.
C5_TopEntities ==
    (pc = "returned" /\ exc = NoExc) =>
        LET top == ret.top_entities
        IN  /\ Len(top) = Min(10, Cardinality(Labels))
            /\ \A j \in 1..Len(top) :
                  top[j][1] \in Labels /\ top[j][2] = Occurrences(top[j][1])
            /\ \A j, k \in 1..Len(top) :
                  j < k => /\ top[j][2] >= top[k][2]
                           /\ top[j][2] = top[k][2] =>
                                 FirstSeen(top[j][1]) < FirstSeen(top[k][1])
            /\ \A l \in Labels :
                  (\A j \in 1..Len(top) : top[j][1] # l) =>
                      \A j \in 1..Len(top) : top[j][2] >= Occurrences(l)

\* More than ten labels, with labels of equal count among the ten kept.
C5_Witness ==
    /\ pc = "returned"
    /\ exc = NoExc
    /\ Cardinality(Labels) > 10
    /\ Len(ret.top_entities) = 10
    /\ ret.top_entities[1][2] = ret.top_entities[2][2]
    /\ ret.top_entities[1][2] > ret.top_entities[10][2]

----------------------------------------------------------------------------
(* C6: the lemma table *)

\* C6: the lemma table has one entry per lemma of a token that is not a stop-word, not
\* punctuation and alphabetic, with the number of such tokens across all the texts; no
\* entry comes from another token, and texts without such a token give an empty table.
C6_LemmaTable ==
    pc \in {"rank", "returned"} =>
        LET t == ay.lemmas_count
        IN  /\ \A j, k \in 1..Len(t) : t[j][1] = t[k][1] => j = k
            /\ \A j \in 1..Len(t) :
                  /\ t[j][2] > 0
                  /\ t[j][2] = Cardinality({q \in ContentPositions :
                                              TokenAt(q).lemma = t[j][1]})
            /\ \A q \in ContentPositions : \E j \in 1..Len(t) : t[j][1] = TokenAt(q).lemma
            /\ (ContentPositions = {}) => t = <<>>

\* A batch with the same lemma in two texts, and tokens of every excluded kind.
C6_Witness ==
    /\ pc = "rank"
    /\ \E j \in 1..Len(ay.lemmas_count) : ay.lemmas_count[j] = <<"run", 3>>
    /\ \E q \in TokenPositions : TokenAt(q).is_stop
    /\ \E q \in TokenPositions : TokenAt(q).is_punct
    /\ \E q \in TokenPositions :
          ~TokenAt(q).is_alpha /\ ~TokenAt(q).is_stop /\ ~TokenAt(q).is_punct

----------------------------------------------------------------------------
(* C7: the extracted records *)

\* C7: the parser yields one record per array element, with the element's id and
\* created_at, and as text the "full text" field when the element has one, the "text"
\* field otherwise.
C7_OneRecordPerElement ==
    (pc \notin {"main", "load", "extract"} /\ \A i \in 1..Len(data) : HasText(data[i].tweet)) =>
        /\ Len(tweets) = Len(data)
        /\ \A i \in 1..Len(data) :
              /\ tweets[i].id = data[i].tweet.id
              /\ tweets[i].created_at = data[i].tweet.created_at
              /\ tweets[i].full_text =
                    IF data[i].tweet.full_text # NoField
                    THEN data[i].tweet.full_text ELSE data[i].tweet.text

\* An element with both fields and one with the "text" field only.
C7_Witness ==
    /\ pc = "frame"
    /\ Len(data) = 2
    /\ data[1].tweet.full_text = "A" /\ data[1].tweet.text = "B"
    /\ tweets[1].full_text = "A"
    /\ data[2].tweet.full_text = NoField
    /\ tweets[2].full_text = "B"

----------------------------------------------------------------------------
(* C8: the reports *)

ReportSeq == SelectRows(page, [i \in 1..Len(page) |-> page[i].kind = "report"])

YearsWithRows == {df[i].created_at.year : i \in 1..Len(df)}

ReportsAreOfTheirYears ==
    /\ \A j, k \in 1..Len(ReportSeq) : j < k => ReportSeq[j].year < ReportSeq[k].year
    /\ \A j \in 1..Len(ReportSeq) :
          LET y == ReportSeq[j].year
              rows == {i \in 1..Len(df) : df[i].created_at.year = y}
              n == Len(ReportSeq[j].line_chart)
          IN  /\ y \in YearsWithRows
              /\ \A b \in 1..n : ReportSeq[j].line_chart[b].year = y
              /\ \A m \in 1..12 :
                    Cardinality({i \in rows : df[i].created_at.month = m}) =
                        IF \E b \in 1..n : ReportSeq[j].line_chart[b].month = m
                        THEN LET b == CHOOSE b \in 1..n : ReportSeq[j].line_chart[b].month = m
                             IN  ReportSeq[j].line_chart[b].count
                        ELSE 0

\* C8: when main has ended on a loaded archive, there is exactly one report per calendar
\* year with at least one record, none for another year, in strictly ascending order of
\* year, each computed from the records of its year.
C8_OneReportPerYear ==
    (pc = "done" /\ Loaded) =>
        /\ {ReportSeq[j].year : j \in 1..Len(ReportSeq)} = YearsWithRows
        /\ ReportsAreOfTheirYears

\* What the code does guarantee: the reports emitted are in ascending order of year and
\* of years with records, and all such years are reported when no year's rendering raised.
C8_ReportsWhenRendered ==
    /\ ReportsAreOfTheirYears
    /\ (pc = "done" /\ Loaded /\ exc = NoExc) =>
          {ReportSeq[j].year : j \in 1..Len(ReportSeq)} = YearsWithRows

----------------------------------------------------------------------------
(* C9: records that share an id *)

\* C9 as stated: the collection has at most one record per id, the last one seen.
C9_UniqueIds ==
    Loaded =>
        /\ \A i, j \in 1..Len(df) : df[i].id = df[j].id => i = j
        /\ \A i \in 1..Len(tweets) :
              (\A j \in (i + 1)..Len(tweets) : tweets[j].id # tweets[i].id) =>
                  \E k \in 1..Len(df) :
                      df[k].id = tweets[i].id /\ df[k].full_text = tweets[i].full_text

\* C9 amended: the collection has one row per raw record, in the order of the archive:
\* records that share an id are all kept, and each is counted in the total and in the
\* monthly counts of its year.
C9_EveryRecordKept ==
    Loaded =>
        /\ Len(df) = Len(tweets)
        /\ \A i \in 1..Len(df) :
              df[i].id = tweets[i].id /\ df[i].full_text = tweets[i].full_text
        /\ \A i \in Items("total") : page[i].count = Len(tweets)
        /\ \A i \in Items("report") :
              \A b \in 1..Len(page[i].line_chart) :
                  page[i].line_chart[b].count =
                      Cardinality({k \in 1..Len(tweets) :
                          /\ tweets[k].created_at.year = page[i].year
                          /\ tweets[k].created_at.mon = MonthAbbr[page[i].line_chart[b].month]})

\* Two records with the same id in the same month: the month counts two posts.
C9_Witness ==
    /\ pc = "done"
    /\ Len(df) = 2
    /\ df[1].id = df[2].id
    /\ \E i \in Items("report") : page[i].line_chart = <<[year |-> 2019, month |-> 4, count |-> 2]>>

----------------------------------------------------------------------------
(* C10: a failure while loading *)

\* C10: when loading fails, no year has been processed and no report is displayed, the
\* failure is caught, and exactly one error message is displayed.
C10_LoadFailureShownOnce ==
    (LoadFailed /\ exc # NoExc) =>
        /\ pc = "done"
        /\ years = <<>> /\ ay = NoLocals /\ ret = NoRet
        /\ Items("year_header") = {} /\ Items("report") = {}
        /\ Cardinality(Items("error")) = 1
        /\ page[Len(page)] = [kind |-> "error", exc |-> exc]

\* A record without a text field: the KeyError is displayed and nothing else follows.
C10_Witness ==
    /\ pc = "done"
    /\ exc = Raise("KeyError", "text")
    /\ Len(data) = 2
    /\ page = <<[kind |-> "title"], [kind |-> "error", exc |-> exc]>>

====
